---- MODULE Spec2Model ----
(***************************************************************************)
(* Model of rp_usb_power_switch (src/src/main.rs): a USB HID device whose  *)
(* set_report handler validates a 4-byte big-endian duration and sends it  *)
(* through a single-slot Watch to toggle_task, which drives relay_pin high *)
(* for that many milliseconds and then discards whatever arrived meanwhile.*)
(*                                                                         *)
(* toggle_task, reader.run and usb.run are joined on one cooperative       *)
(* executor (main.rs:98-102), so the code between two .await points of     *)
(* toggle_task is one atomic step with respect to set_report.              *)
(* Time is counted in milliseconds while a Timer is armed. The executor    *)
(* polls a woken task before the millisecond clock advances.               *)
(***************************************************************************)
EXTENDS Integers, Sequences, FiniteSets, TLC

\* ----- bounds of the model
MaxReports == 4      \* reports the host sends in one run
MaxFineTicks == 2    \* 1 ms ticks taken one by one at the start of a wait

\* ----- program constants
MAX_DURATION == 1000 * 60 * 10

VARIABLES
    relay_pin,   \* level of PIN_10: "Low" | "High"
    toggle_pc,   \* await point toggle_task is suspended at: "changed" | "timer"
    wait_for,    \* toggle_task's local: the value changed() returned
    timer,       \* milliseconds left on the armed Timer
    watch_data,  \* the Watch's slot: <<>> (None) or <<v>> (Some(v))
    changed,     \* the receiver has not yet seen the slot's latest value
    req,         \* the last report delivered to set_report
    resp,        \* the OutResponse set_report returned for it
    nReports,    \* reports delivered so far
    pending,     \* history: valid sends since the receiver last looked, each
                 \* with toggle_task's position and the pin level at the send
    sent,        \* history: every value sent into the Watch, in order
    cycles,      \* history: measured length of every finished activation
    drained,     \* history: sends discarded by try_changed()
    highFor,     \* history: milliseconds since relay_pin went high
    nAct         \* history: activations started

vars == <<relay_pin, toggle_pc, wait_for, timer, watch_data, changed, req,
          resp, nReports, pending, sent, cycles, drained, highFor, nAct>>

\* ----- inputs: report ids and payloads the host may send. Payload values stay
\* below 2^31 so that every u32 the handler computes is represented exactly.
ReportIds == {1, 2}

ValidPayloads ==
    { <<0, 0, 0, 1>>, <<0, 0, 0, 2>>, <<0, 9, 39, 192>> }

OutOfRangePayloads ==
    { <<0, 0, 0, 0>>, <<0, 9, 39, 193>>, <<1, 0, 0, 0>>, <<127, 255, 255, 255>> }

BadLengthPayloads ==
    { <<>>, <<1>>, <<0, 0, 1>>, <<0, 0, 0, 0, 1>> }

Payloads == ValidPayloads \cup OutOfRangePayloads \cup BadLengthPayloads

\* ----- set_report's pure parts

\* data.try_into() to [u8; 4] succeeds exactly on slices of length 4
try_into_ok_prefix(data) == Len(data) >= 4
try_into_ok(data) == Len(data) = 4

\* u32::from_be_bytes: most significant byte first
from_be_bytes_u16(b) == b[3] * 256 + b[4]
from_be_bytes(b) == ((b[1] * 256 + b[2]) * 256 + b[3]) * 256 + b[4]

\* (duration > 0) & (duration <= MAX_DURATION)
in_range_no_max(duration) == duration > 0
in_range(duration) == (duration > 0) /\ (duration <= MAX_DURATION)

\* the value returned to the USB stack
out_response_strict(data) ==
    IF try_into_ok(data) /\ in_range(from_be_bytes(data))
    THEN "Accepted" ELSE "Rejected"
out_response(data) == IF try_into_ok(data) THEN "Accepted" ELSE "Rejected"

\* whether set_report reaches self.tx.send(duration)
forwards(data) == try_into_ok(data) /\ in_range(from_be_bytes(data))

\* ----- the Watch

\* Sender::send: overwrite the slot, mark it changed for the receiver
watch_send_keep_first(v) ==
    /\ watch_data' = IF changed THEN watch_data ELSE <<v>>
    /\ changed' = TRUE
watch_send_silent(v) ==
    /\ watch_data' = <<v>>
    /\ changed' = changed
watch_send_when_seen(v) ==
    /\ ~changed
    /\ watch_data' = <<v>>
    /\ changed' = TRUE
watch_send(v) ==
    /\ watch_data' = <<v>>
    /\ changed' = TRUE

\* Receiver::try_changed with its result dropped
try_changed_skipped == changed' = changed
try_changed == changed' = FALSE

\* ----- set_report

\* what set_report leaves alone: it owns only the Sender
set_report_frame_pin ==
    /\ relay_pin' = "High"
    /\ UNCHANGED <<toggle_pc, wait_for, timer>>
set_report_frame == UNCHANGED <<relay_pin, toggle_pc, wait_for, timer>>

set_report_id_checked(id, data) ==
    /\ nReports < MaxReports
    /\ nReports' = nReports + 1
    /\ req' = [id |-> id, data |-> data]
    /\ resp' = IF id = 1 THEN out_response(data) ELSE "Rejected"
    /\ IF id = 1 /\ forwards(data)
       THEN /\ watch_send(from_be_bytes(data))
            /\ pending' = Append(pending,
                             [val |-> from_be_bytes(data), during |-> toggle_pc,
                              pin |-> relay_pin])
            /\ sent' = Append(sent, from_be_bytes(data))
       ELSE UNCHANGED <<watch_data, changed, pending, sent>>
    /\ set_report_frame
    /\ UNCHANGED <<cycles, drained, highFor, nAct>>
set_report(id, data) ==
    /\ nReports < MaxReports
    /\ nReports' = nReports + 1
    /\ req' = [id |-> id, data |-> data]
    /\ resp' = out_response(data)
    /\ IF forwards(data)
       THEN /\ watch_send(from_be_bytes(data))
            /\ pending' = Append(pending,
                             [val |-> from_be_bytes(data), during |-> toggle_pc,
                              pin |-> relay_pin])
            /\ sent' = Append(sent, from_be_bytes(data))
       ELSE UNCHANGED <<watch_data, changed, pending, sent>>
    /\ set_report_frame
    /\ UNCHANGED <<cycles, drained, highFor, nAct>>

HandleReport == \E id \in ReportIds, data \in Payloads : set_report(id, data)

\* ----- toggle_task

\* Timer::after_millis(wait_for as u64)
timer_arm_long(d) == d + 1
timer_arm(d) == d

\* level given to Output::new
initial_level_high == "High"
initial_level == "Low"

\* receiver.changed() returns; set_high; the Timer is armed
toggle_changed_get ==
    /\ toggle_pc = "changed"
    /\ watch_data # <<>>
    /\ wait_for' = watch_data[1]
    /\ changed' = FALSE
    /\ relay_pin' = "High"
    /\ timer' = timer_arm(watch_data[1])
    /\ toggle_pc' = "timer"
    /\ highFor' = 0
    /\ pending' = <<>>
    /\ nAct' = nAct + 1
    /\ UNCHANGED <<watch_data, req, resp, nReports, sent, cycles, drained>>
toggle_changed ==
    /\ toggle_pc = "changed"
    /\ changed
    /\ wait_for' = watch_data[1]
    /\ changed' = FALSE
    /\ relay_pin' = "High"
    /\ timer' = timer_arm(watch_data[1])
    /\ toggle_pc' = "timer"
    /\ highFor' = 0
    /\ pending' = <<>>
    /\ nAct' = nAct + 1
    /\ UNCHANGED <<watch_data, req, resp, nReports, sent, cycles, drained>>

\* the millisecond clock advances while the Timer runs: one by one for the
\* first MaxFineTicks milliseconds, or straight to the deadline
timer_tick ==
    /\ toggle_pc = "timer"
    /\ timer > 0
    /\ \E delta \in {1, timer} :
          /\ (delta = 1 /\ timer > 1) => highFor < MaxFineTicks
          /\ timer' = timer - delta
          /\ highFor' = highFor + delta
    /\ UNCHANGED <<relay_pin, toggle_pc, wait_for, watch_data, changed, req,
                   resp, nReports, pending, sent, cycles, drained, nAct>>

\* Timer::after_millis(..).await completes at its deadline, not before
timer_expired_or_changed == timer = 0 \/ changed
timer_expired == timer = 0

\* the Timer fires; set_low; try_changed
toggle_timer_done_no_low ==
    /\ toggle_pc = "timer"
    /\ timer_expired
    /\ try_changed
    /\ drained' = IF changed' THEN drained ELSE drained \o pending
    /\ pending' = IF changed' THEN pending ELSE <<>>
    /\ cycles' = Append(cycles, highFor)
    /\ toggle_pc' = "changed"
    /\ UNCHANGED <<relay_pin, wait_for, timer, watch_data, req, resp, nReports,
                   sent, highFor, nAct>>
toggle_timer_done_yield ==
    /\ toggle_pc = "timer"
    /\ timer_expired
    /\ \/ /\ relay_pin = "High"
          /\ relay_pin' = "Low"
          /\ UNCHANGED <<toggle_pc, changed, drained, pending, cycles>>
       \/ /\ relay_pin = "Low"
          /\ try_changed
          /\ drained' = IF changed' THEN drained ELSE drained \o pending
          /\ pending' = IF changed' THEN pending ELSE <<>>
          /\ cycles' = Append(cycles, highFor)
          /\ toggle_pc' = "changed"
          /\ UNCHANGED relay_pin
    /\ UNCHANGED <<wait_for, timer, watch_data, req, resp, nReports, sent,
                   highFor, nAct>>
toggle_timer_done ==
    /\ toggle_pc = "timer"
    /\ timer_expired
    /\ relay_pin' = "Low"
    /\ try_changed
    /\ drained' = IF changed' THEN drained ELSE drained \o pending
    /\ pending' = IF changed' THEN pending ELSE <<>>
    /\ cycles' = Append(cycles, highFor)
    /\ toggle_pc' = "changed"
    /\ UNCHANGED <<wait_for, timer, watch_data, req, resp, nReports, sent,
                   highFor, nAct>>

\* ----- the program

Init ==
    /\ relay_pin = initial_level
    /\ toggle_pc = "changed"
    /\ wait_for = 0
    /\ timer = 0
    /\ watch_data = <<>>
    /\ changed = FALSE
    /\ req = [id |-> 0, data |-> <<>>]
    /\ resp = "None"
    /\ nReports = 0
    /\ pending = <<>>
    /\ sent = <<>>
    /\ cycles = <<>>
    /\ drained = <<>>
    /\ highFor = 0
    /\ nAct = 0

Next ==
    \/ HandleReport
    \/ toggle_changed
    \/ timer_tick
    \/ toggle_timer_done

Spec == Init /\ [][Next]_vars

\* the same program when the host sends a report only once the previous cycle
\* has fully completed: pin low, try_changed done, toggle_task back at changed()
HandleReportSeq ==
    /\ toggle_pc = "changed"
    /\ ~changed
    /\ HandleReport

NextSeq ==
    \/ HandleReportSeq
    \/ toggle_changed
    \/ timer_tick
    \/ toggle_timer_done

SpecSeq == Init /\ [][NextSeq]_vars

\* the same program under the executor's scheduling: a task that is woken (by
\* a send or by its Timer) is eventually polled, and the clock keeps running
\* while a Timer is armed. The host is never obliged to send a report.
Fairness ==
    /\ WF_vars(toggle_changed)
    /\ WF_vars(timer_tick)
    /\ WF_vars(toggle_timer_done)

SpecFair == Init /\ [][Next]_vars /\ Fairness

\* ----- vocabulary of the properties

Idle == toggle_pc = "changed"
Active == toggle_pc = "timer"

ReportStep == nReports' = nReports + 1
ActivateStep == toggle_pc = "changed" /\ toggle_pc' = "timer"
CompleteStep == toggle_pc = "timer" /\ toggle_pc' = "changed"

\* the big-endian value of four bytes, as the interface documents it
BigEndianValue(b) == b[1] * 2^24 + b[2] * 2^16 + b[3] * 2^8 + b[4]

WellFormed(data) == Len(data) = 4
ValidCommand(data) ==
    WellFormed(data) /\ 1 <= BigEndianValue(data) /\ BigEndianValue(data) <= 600000

LastOf(s) == s[Len(s)]

\* ----- properties

\* C1: no re-trigger. A valid command sent while toggle_task is Active is
\* discarded by the step that returns it to Idle: in Idle nothing sent during
\* an activation is left in the channel, the completing step leaves the pin
\* low with no change pending, and the pin goes high only for a command that
\* was sent while Idle, whose value the activation takes.
C1_NoRetrigger ==
    [][ /\ Idle' => \A i \in 1..Len(pending') : pending'[i].during = "changed"
        /\ CompleteStep => (relay_pin' = "Low" /\ ~changed')
        /\ (relay_pin = "Low" /\ relay_pin' = "High") =>
              /\ pending # <<>>
              /\ LastOf(pending).during = "changed"
              /\ wait_for' = LastOf(pending).val ]_vars

\* C1 witness: command A has run to completion, a command sent during its
\* activation was discarded, and the actuator is Idle with the pin low.
C1_Witness ==
    /\ Idle
    /\ relay_pin = "Low"
    /\ ~changed
    /\ nAct = 1
    /\ Len(cycles) = 1
    /\ drained # <<>>
    /\ drained[1].during = "timer"

C3_Overwrite ==
    [][ /\ (sent' # <<>>) => watch_data' = <<LastOf(sent')>>
        /\ changed' <=> (pending' # <<>>)
        /\ ActivateStep =>
              /\ wait_for' = LastOf(pending).val
              /\ timer' = LastOf(pending).val
              /\ nAct' = nAct + 1
              /\ ~changed' ]_vars

\* C3 witness: two different values were sent before either was observed;
\* one activation ran, for the second value, and nothing was drained.
C3_Witness ==
    /\ Len(sent) = 2
    /\ sent[1] # sent[2]
    /\ nAct = 1
    /\ cycles = <<sent[2]>>
    /\ drained = <<>>
    /\ Idle
    /\ ~changed

\* C4: a 4-byte report whose value is 0 or above 600000 is answered Accepted,
\* nothing is sent, and pin, actuator and channel (with any pending command)
\* are unchanged.
C4_OutOfRange ==
    [][ (ReportStep /\ WellFormed(req'.data) /\ ~ValidCommand(req'.data)) =>
           /\ resp' = "Accepted"
           /\ UNCHANGED <<watch_data, changed, relay_pin, toggle_pc, wait_for,
                          timer, sent, pending>> ]_vars

\* C4 witness: the value 600001 was answered Accepted while a valid command
\* is still pending in the channel.
C4_Witness ==
    /\ req.data = <<0, 9, 39, 193>>
    /\ resp = "Accepted"
    /\ changed
    /\ watch_data = <<1>>
    /\ sent = <<1>>

\* C5: a report whose payload is not exactly 4 bytes long is answered
\* Rejected, nothing is sent, and channel, actuator and pin are unchanged.
C5_BadLength ==
    [][ (ReportStep /\ ~WellFormed(req'.data)) =>
           /\ resp' = "Rejected"
           /\ UNCHANGED <<watch_data, changed, relay_pin, toggle_pc, wait_for,
                          timer, sent, pending>> ]_vars

\* C5 witness: a 5-byte report was rejected during an activation.
C5_Witness ==
    /\ Len(req.data) = 5
    /\ resp = "Rejected"
    /\ Active
    /\ relay_pin = "High"

\* C6: when every report is sent only after the previous cycle has fully
\* completed, then whenever the device is quiescent the finished activations
\* are, one for one and in order, the valid durations sent.
C6_Sequential ==
    (Idle /\ ~changed) =>
        /\ cycles = sent
        /\ nAct = Len(sent)
        /\ drained = <<>>

\* C6 witness: the same duration was sent three times and three cycles of
\* that length have completed.
C6_Witness ==
    /\ Idle
    /\ ~changed
    /\ Len(cycles) = 3
    /\ sent = <<2, 2, 2>>

\* C7: the pin is high exactly while toggle_task is Active (suspended on its
\* Timer) and low while it is Idle, from boot on.
C7_PinIffActive == (relay_pin = "High") <=> Active

\* C7 witness: an activation is under way, some of its time has passed.
C7_Witness ==
    /\ Active
    /\ relay_pin = "High"
    /\ highFor > 0
    /\ timer > 0

\* C8: handling a report never changes the pin or the actuator; for a valid
\* command it overwrites the slot, marks it changed and records one send;
\* the pin changes only in steps of toggle_task.
C8_HandlerFrame ==
    [][ /\ ReportStep =>
              /\ UNCHANGED <<relay_pin, toggle_pc, wait_for, timer>>
              /\ ValidCommand(req'.data) =>
                    /\ watch_data' = <<BigEndianValue(req'.data)>>
                    /\ changed'
                    /\ Len(sent') = Len(sent) + 1
              /\ ~ValidCommand(req'.data) => UNCHANGED <<watch_data, changed, sent>>
        /\ (relay_pin' # relay_pin) => (ActivateStep \/ CompleteStep) ]_vars

\* C8 witness: a valid command was handled while the pin was high.
C8_Witness ==
    /\ relay_pin = "High"
    /\ Active
    /\ ValidCommand(req.data)
    /\ changed
    /\ pending # <<>>

\* C9: a 4-byte payload whose big-endian value v is within 1..600000 is
\* answered Accepted and v is the value placed in the channel.
C9_BigEndian ==
    [][ (ReportStep /\ ValidCommand(req'.data)) =>
           /\ resp' = "Accepted"
           /\ watch_data' = <<BigEndianValue(req'.data)>> ]_vars

\* C9 witness: the payload 00 09 27 C0 put 600000 into the channel.
C9_Witness ==
    /\ req.data = <<0, 9, 39, 192>>
    /\ resp = "Accepted"
    /\ watch_data = <<600000>>

\* C10: whenever the timer is armed, the duration it was armed with is within
\* 1..600000.
C10_DurationBounded ==
    Active => (1 <= wait_for /\ wait_for <= 600000 /\ timer <= wait_for)

\* C10 witness: an activation of the maximum duration is under way after
\* badly formed and out-of-range reports were received.
C10_Witness ==
    /\ Active
    /\ wait_for = 600000
    /\ req.data = <<0, 9, 39, 193>>
    /\ nReports >= 3

\* C11: under fair scheduling every activation ends: whenever toggle_task is
\* Active it eventually is Idle again with the pin low, whatever reports
\* arrive meanwhile; and the loop never stops: toggle_task is always either
\* runnable, waiting for its Timer's deadline, or suspended on changed().
C11_ActivationEnds ==
    /\ Active ~> (Idle /\ relay_pin = "Low")
    /\ [](\/ ENABLED toggle_changed
          \/ ENABLED timer_tick
          \/ ENABLED toggle_timer_done
          \/ (Idle /\ ~changed))

\* C11 witness: an activation during which a valid command and then another
\* report arrived has ended; the actuator is Idle with the pin low.
C11_Witness ==
    /\ Idle
    /\ relay_pin = "Low"
    /\ Len(cycles) = 1
    /\ drained # <<>>
    /\ nReports >= 3

\* C12: under fair scheduling a valid command sent while toggle_task is Idle
\* is not lost: while it is Idle with an unobserved send, it eventually
\* becomes Active with the pin high, whether or not further reports arrive.
C12_IdleCommandActivates ==
    (Idle /\ pending # <<>>) ~> (Active /\ relay_pin = "High")

\* C12 witness: one command was sent to the Idle device, no other report
\* followed, and the activation for it is under way.
C12_Witness ==
    /\ Active
    /\ relay_pin = "High"
    /\ nReports = 1
    /\ sent = <<2>>
    /\ wait_for = 2

\* C13: a report is never kept waiting: in every state, and so also while
\* toggle_task is suspended on its Timer or has a change still unobserved,
\* set_report can run to completion for every id and payload, and every
\* report handled has been answered Accepted or Rejected.
C13_HandlerNeverWaits ==
    /\ (nReports < MaxReports) =>
           \A id \in ReportIds, data \in Payloads : ENABLED set_report(id, data)
    /\ (nReports > 0) => resp \in {"Accepted", "Rejected"}

\* C13 witness: during an activation, with one command already pending in
\* the channel, a second valid command was handled and answered.
C13_Witness ==
    /\ Active
    /\ timer > 0
    /\ Len(pending) = 2
    /\ resp = "Accepted"

\* C14: no early release. The pin goes from high to low only when the Timer
\* has run down and exactly wait_for milliseconds have passed since it went
\* high; a report handled during an activation changes neither the pin, the
\* duration, the time left nor the time run; and while the activation lasts
\* its duration is fixed and its remaining time never grows.
C14_NoEarlyRelease ==
    [][ /\ (relay_pin = "High" /\ relay_pin' = "Low") =>
              (timer = 0 /\ highFor = wait_for)
        /\ (ReportStep /\ Active) =>
              UNCHANGED <<relay_pin, toggle_pc, wait_for, timer, highFor>>
        /\ (Active /\ Active') =>
              /\ wait_for' = wait_for
              /\ timer' <= timer
              /\ highFor' >= highFor ]_vars

\* C14 witness: a 600000 ms activation during which the command 1 arrived
\* has lasted its full 600000 ms; the command was discarded.
C14_Witness ==
    /\ Idle
    /\ cycles = <<600000>>
    /\ Len(drained) = 1
    /\ drained[1].val = 1

\* C15: set_low and try_changed happen in one step, so no report is handled
\* between them: the step that returns to Idle takes the pin from high to
\* low and leaves no change pending; every command try_changed discarded was
\* sent while the pin was high; and a command sent while the pin was low
\* stays pending until the step that observes the channel.
C15_DrainAtomic ==
    [][ /\ CompleteStep =>
              (relay_pin = "High" /\ relay_pin' = "Low" /\ ~changed')
        /\ \A i \in 1..Len(drained') : drained'[i].pin = "High"
        /\ (pending # <<>> /\ pending[1].pin = "Low") =>
              /\ (pending' = <<>>) => ActivateStep
              /\ (pending' # <<>>) => pending'[1] = pending[1] ]_vars

\* C15 witness: a command sent during the first activation was discarded,
\* and a command sent after the pin went low has started the second one.
C15_Witness ==
    /\ Active
    /\ nAct = 2
    /\ Len(drained) = 1
    /\ Len(sent) = 3
    /\ wait_for = sent[3]

\* C16: one send, at most one activation. Every activation consumes at least
\* one send not yet looked at, and the sends consumed, still pending and
\* discarded are all different sends: activations started, plus sends pending,
\* plus sends discarded, never exceed the valid commands sent.
C16_OneSendOneActivation ==
    [][ /\ ActivateStep => (changed /\ pending # <<>>)
        /\ nAct' + Len(pending') + Len(drained') <= Len(sent')
        /\ nAct' <= Len(sent') ]_vars

\* C16 witness: two commands were sent one after the other's cycle and each
\* started one activation; with no new send the actuator stays Idle.
C16_Witness ==
    /\ Idle
    /\ ~changed
    /\ nAct = 2
    /\ Len(sent) = 2
    /\ Len(cycles) = 2
    /\ ~ENABLED toggle_changed

\* the responses and slot contents set_report can produce
Responses == {"Accepted", "Rejected"}
SlotValues ==
    {<<>>} \cup {<<BigEndianValue(p)>> : p \in {q \in Payloads : Len(q) = 4}}

\* C17: report-id independence. In every state and for every payload, the
\* handler run with report id 1 can produce a given response, changed mark
\* or slot content exactly when it can with any other id.
C17_IdIndependent ==
    \A data \in Payloads, id \in ReportIds \ {1} :
        /\ ENABLED set_report(1, data) <=> ENABLED set_report(id, data)
        /\ \A r \in Responses :
              ENABLED (set_report(1, data) /\ resp' = r)
                 <=> ENABLED (set_report(id, data) /\ resp' = r)
        /\ \A c \in BOOLEAN :
              ENABLED (set_report(1, data) /\ changed' = c)
                 <=> ENABLED (set_report(id, data) /\ changed' = c)
        /\ \A w \in SlotValues :
              ENABLED (set_report(1, data) /\ watch_data' = w)
                 <=> ENABLED (set_report(id, data) /\ watch_data' = w)

\* C17 witness: the same valid bytes were sent twice, the second time under
\* report id 2, and were accepted and forwarded both times.
C17_Witness ==
    /\ nReports = 2
    /\ req.id = 2
    /\ req.data = <<0, 0, 0, 1>>
    /\ resp = "Accepted"
    /\ sent = <<1, 1>>
    /\ watch_data = <<1>>

TypeOK ==
    /\ relay_pin \in {"Low", "High"}
    /\ toggle_pc \in {"changed", "timer"}
    /\ wait_for \in 0..MAX_DURATION
    /\ timer \in 0..MAX_DURATION
    /\ Len(watch_data) <= 1
    /\ changed \in BOOLEAN
    /\ resp \in {"None", "Accepted", "Rejected"}
    /\ nReports \in 0..MaxReports
====
